---- MODULE Spec2Model ----
(***************************************************************************)
(* A model of the JIRA task exporter (src/main.py): the paginated fetch of *)
(* JiraClient.get_tasks, the flattening of JiraTaskFormatter.format_task,  *)
(* the CSV writer CSVExporter.export and the orchestration of              *)
(* JiraTaskExporter.export_tasks.                                          *)
(***************************************************************************)
EXTENDS Integers, Sequences, FiniteSets, TLC

(***************************************************************************)
(* Bounds of the model.                                                    *)
(***************************************************************************)
\* the largest small page size tried besides the default one
MaxPageSize == 3
\* the largest number of records the small servers hold
MaxDb == 4
\* the largest number of records of the small servers of mixed records
MaxBatch == 3

\* the default of max_results_per_page
DefaultPageSize == 50

(***************************************************************************)
(* Python values, as decoded from JSON or built by the program.  A dict   *)
(* keeps its items in insertion order: kv is a sequence of <<key, value>>. *)
(***************************************************************************)
PyNone == [t |-> "none"]
PyStr(s) == [t |-> "str", s |-> s]
PyInt(n) == [t |-> "int", n |-> n]
PyBool(b) == [t |-> "bool", b |-> b]
PyList(xs) == [t |-> "list", xs |-> xs]
PyDict(kv) == [t |-> "dict", kv |-> kv]

\* bool(v)
Truthy(v) ==
  CASE v.t = "none" -> FALSE
    [] v.t = "str" -> v.s # ""
    [] v.t = "int" -> v.n # 0
    [] v.t = "bool" -> v.b
    [] v.t = "list" -> Len(v.xs) > 0
    [] v.t = "dict" -> Len(v.kv) > 0

\* k in d, for a dict d
HasKey(d, k) == \E i \in 1..Len(d.kv) : d.kv[i][1] = k
\* d[k], for a dict d that has k
Item(d, k) == d.kv[CHOOSE i \in 1..Len(d.kv) : d.kv[i][1] = k][2]
\* d.get(k, default), for a dict d
Get(d, k, default) == IF HasKey(d, k) THEN Item(d, k) ELSE default

\* the outcome of evaluating an expression: a value or a raised exception
Ok(v) == [ok |-> TRUE, v |-> v]
Raise(e) == [ok |-> FALSE, exc |-> e]

\* x.get(k, default): only a dict has the method
MethodGet(x, k, default) ==
  IF x.t = "dict" THEN Ok(Get(x, k, default)) ELSE Raise("AttributeError")

\* x[k] for a string key k
Subscript(x, k) ==
  IF x.t = "dict"
    THEN IF HasKey(x, k) THEN Ok(Item(x, k)) ELSE Raise("KeyError")
    ELSE Raise("TypeError")

\* sub occurs in the string s
IsSubstring(sub, s) ==
  \E i \in 1..(Len(s) - Len(sub) + 1) : SubSeq(s, i, i + Len(sub) - 1) = sub

\* k in x for a string k
Contains(x, k) ==
  CASE x.t = "dict" -> Ok(HasKey(x, k))
    [] x.t = "str" -> Ok(k = "" \/ IsSubstring(k, x.s))
    [] x.t = "list" -> Ok(\E i \in 1..Len(x.xs) : x.xs[i] = PyStr(k))
    [] OTHER -> Raise("TypeError")

\* the elements "for x in v" visits
Iterate(v) ==
  CASE v.t = "list" -> Ok(v.xs)
    [] v.t = "str" -> Ok([i \in 1..Len(v.s) |-> PyStr(SubSeq(v.s, i, i))])
    [] v.t = "dict" -> Ok([i \in 1..Len(v.kv) |-> PyStr(v.kv[i][1])])
    [] OTHER -> Raise("TypeError")

RECURSIVE JoinStrings(_, _)
\* sep.join(ss) for a sequence ss of strings
JoinStrings(sep, ss) ==
  IF Len(ss) = 0 THEN ""
  ELSE IF Len(ss) = 1 THEN ss[1]
  ELSE ss[1] \o sep \o JoinStrings(sep, Tail(ss))

\* sep.join(xs) for a sequence xs of values: every item must be a str
Join(sep, xs) ==
  IF \A i \in 1..Len(xs) : xs[i].t = "str"
    THEN Ok(PyStr(JoinStrings(sep, [i \in 1..Len(xs) |-> xs[i].s])))
    ELSE Raise("TypeError")

RECURSIVE Repr(_)
\* repr(v); the strings of the model hold no quote and no escape
Repr(v) ==
  CASE v.t = "none" -> "None"
    [] v.t = "str" -> "'" \o v.s \o "'"
    [] v.t = "int" -> ToString(v.n)
    [] v.t = "bool" -> IF v.b THEN "True" ELSE "False"
    [] v.t = "list" ->
         "[" \o JoinStrings(", ", [i \in 1..Len(v.xs) |-> Repr(v.xs[i])]) \o "]"
    [] v.t = "dict" ->
         "{" \o JoinStrings(", ", [i \in 1..Len(v.kv) |->
                   "'" \o v.kv[i][1] \o "': " \o Repr(v.kv[i][2])]) \o "}"

\* str(v)
Str(v) == IF v.t = "str" THEN v.s ELSE Repr(v)

RECURSIVE JsonDumps(_)
\* json.dumps(v) with the default separators; the strings of the model hold
\* no quote, no backslash and no control character
JsonDumps(v) ==
  CASE v.t = "none" -> "null"
    [] v.t = "str" -> "\"" \o v.s \o "\""
    [] v.t = "int" -> ToString(v.n)
    [] v.t = "bool" -> IF v.b THEN "true" ELSE "false"
    [] v.t = "list" ->
         "[" \o JoinStrings(", ", [i \in 1..Len(v.xs) |-> JsonDumps(v.xs[i])]) \o "]"
    [] v.t = "dict" ->
         "{" \o JoinStrings(", ", [i \in 1..Len(v.kv) |->
                   "\"" \o v.kv[i][1] \o "\": " \o JsonDumps(v.kv[i][2])]) \o "}"

(***************************************************************************)
(* TextCleaner                                                             *)
(***************************************************************************)
IsSpace(c) == c \in {" ", "\t", "\n", "\r", "\f"}
IsDigit(c) == c \in {"0", "1", "2", "3", "4", "5", "6", "7", "8", "9"}

RECURSIVE DigitRun(_, _)
\* the number of digits of s from position i on
DigitRun(s, i) ==
  IF i <= Len(s) /\ IsDigit(SubSeq(s, i, i)) THEN 1 + DigitRun(s, i + 1) ELSE 0

\* the length of the match of \s\(IM-\d+\) at the start of s, 0 when none
PatternMatch(s) ==
  LET d == DigitRun(s, 6)
  IN IF /\ Len(s) >= 7
        /\ IsSpace(SubSeq(s, 1, 1))
        /\ SubSeq(s, 2, 5) = "(IM-"
        /\ d >= 1
        /\ SubSeq(s, 6 + d, 6 + d) = ")"
       THEN 6 + d
       ELSE 0

RECURSIVE ReSub(_)
\* re.sub(pattern, '', s)
ReSub(s) ==
  IF s = "" THEN ""
  ELSE LET m == PatternMatch(s)
       IN IF m > 0 THEN ReSub(SubSeq(s, m + 1, Len(s)))
          ELSE SubSeq(s, 1, 1) \o ReSub(SubSeq(s, 2, Len(s)))

\* TextCleaner.clean_field
clean_field(field) ==
  IF ~Truthy(field) THEN PyStr("")
  ELSE IF field.t = "list"
    THEN PyStr(JoinStrings(",", [i \in 1..Len(field.xs) |-> ReSub(Str(field.xs[i]))]))
  ELSE PyStr(ReSub(Str(field)))

(***************************************************************************)
(* JiraTaskFormatter                                                       *)
(***************************************************************************)
\* JiraTaskFormatter.get_nested_value; subkey "" stands for no subkey
get_nested_value(data, key, subkey) ==
  IF ~HasKey(data, key) THEN PyStr("")
  ELSE LET value == Item(data, key)
       IN IF ~Truthy(value) THEN PyStr("")
          ELSE IF subkey = "" THEN value
          ELSE IF value.t = "dict" /\ HasKey(value, subkey)
            THEN (IF Truthy(Item(value, subkey)) THEN Item(value, subkey) ELSE PyStr(""))
          ELSE PyStr("")

\* l2_assignee: the emailAddress of every item of customfield_20145
l2_assignee(fields) ==
  IF Truthy(Get(fields, "customfield_20145", PyNone))
    THEN LET it == Iterate(Get(fields, "customfield_20145", PyList(<<>>)))
         IN IF ~it.ok THEN Raise(it.exc)
            ELSE IF \E i \in 1..Len(it.v) : it.v[i].t # "dict"
              THEN Raise("AttributeError")
            ELSE Ok(PyList([i \in 1..Len(it.v) |->
                              Get(it.v[i], "emailAddress", PyStr(""))]))
    ELSE Ok(PyList(<<>>))

\* vendor_related: customfield_20906.get("value", "") when present and truthy
vendor_related(fields) ==
  IF HasKey(fields, "customfield_20906") /\ Truthy(Item(fields, "customfield_20906"))
    THEN MethodGet(Item(fields, "customfield_20906"), "value", PyStr(""))
    ELSE Ok(PyStr(""))

\* system_owner: customfield_20157["displayName"] when truthy and holding it
system_owner(fields) ==
  IF Truthy(Get(fields, "customfield_20157", PyNone))
    THEN LET c == Contains(Item(fields, "customfield_20157"), "displayName")
         IN IF ~c.ok THEN Raise(c.exc)
            ELSE IF c.v THEN Subscript(Item(fields, "customfield_20157"), "displayName")
            ELSE Ok(PyStr(""))
    ELSE Ok(PyStr(""))

\* fields.get(key, "")
DirectScalar(fields, key) == Ok(Get(fields, key, PyStr("")))

\* fields.get(key, {}).get(attr, "")
NestedGet(fields, key, attr) ==
  MethodGet(Get(fields, key, PyDict(<<>>)), attr, PyStr(""))

\* str(fields.get("customfield_20904", 0) or 0)
error_rate(fields) ==
  LET v == Get(fields, "customfield_20904", PyInt(0))
  IN Ok(PyStr(Str(IF Truthy(v) THEN v ELSE PyInt(0))))

\* json.dumps(customfield_22301["value"]) when present, truthy and holding it
problem_links(fields) ==
  IF HasKey(fields, "customfield_22301") /\ Truthy(Item(fields, "customfield_22301"))
    THEN LET c == Contains(Item(fields, "customfield_22301"), "value")
         IN IF ~c.ok THEN Raise(c.exc)
            ELSE IF c.v
              THEN LET x == Subscript(Item(fields, "customfield_22301"), "value")
                   IN IF x.ok THEN Ok(PyStr(JsonDumps(x.v))) ELSE Raise(x.exc)
            ELSE Ok(PyStr(""))
    ELSE Ok(PyStr(""))

\* the items of the dict format_task returns, in the order it evaluates them
RowItems(task, fields, l2, responsible_team, incident_type, vendor, owner) == <<
  <<"key", Subscript(task, "key")>>,
  <<"summary", DirectScalar(fields, "summary")>>,
  <<"reporter", NestedGet(fields, "reporter", "displayName")>>,
  <<"L2 Assignee", Join(", ", l2.xs)>>,
  <<"Responsible Team", Ok(responsible_team)>>,
  <<"Incident Detected type", Ok(incident_type)>>,
  <<"Vendor Related Incidents", Ok(vendor)>>,
  <<"status", NestedGet(fields, "status", "name")>>,
  <<"priority", NestedGet(fields, "priority", "name")>>,
  <<"System for incident", Ok(clean_field(Get(fields, "customfield_20800", PyStr(""))))>>,
  <<"System Owner", Ok(owner)>>,
  <<"System owner department", Ok(clean_field(Get(fields, "customfield_20129", PyStr(""))))>>,
  <<"Impacted Business Process", Ok(clean_field(Get(fields, "customfield_20160", PyStr(""))))>>,
  <<"Impacted Systems", Ok(clean_field(Get(fields, "customfield_20164", PyStr(""))))>>,
  <<"Incident detected date", DirectScalar(fields, "customfield_20162")>>,
  <<"Incident start date", DirectScalar(fields, "customfield_20158")>>,
  <<"Incident end date", DirectScalar(fields, "customfield_20159")>>,
  <<"Incident Duration", Ok(get_nested_value(fields, "customfield_20908", "value"))>>,
  <<"Downtime Type", Ok(get_nested_value(fields, "customfield_20901", "value"))>>,
  <<"Downtime Outage", Ok(get_nested_value(fields, "customfield_20902", "value"))>>,
  <<"Incident Details", DirectScalar(fields, "customfield_20136")>>,
  <<"Mitigation & Resolution", DirectScalar(fields, "customfield_20138")>>,
  <<"Root Cause Analysis", DirectScalar(fields, "customfield_20137")>>,
  <<"Corrective Actions", DirectScalar(fields, "customfield_20148")>>,
  <<"Incident solution", DirectScalar(fields, "customfield_20113")>>,
  <<"Real downtime duration", DirectScalar(fields, "customfield_21519")>>,
  <<"Error Rate", error_rate(fields)>>,
  <<"Problem Links", problem_links(fields)>>
>>

\* the exception of the first failed outcome of a sequence of outcomes
FirstExc(rs) == rs[CHOOSE i \in 1..Len(rs) :
                     ~rs[i].ok /\ \A j \in 1..(i - 1) : rs[j].ok].exc

\* JiraTaskFormatter.format_task: Ok(row), the row a dict from column to
\* value, or the exception it raises
format_task(task) ==
  LET f == Subscript(task, "fields")
  IN IF ~f.ok THEN Raise(f.exc)
     ELSE IF f.v.t # "dict" THEN Raise("AttributeError")
     ELSE
       LET fields == f.v
           l2 == l2_assignee(fields)
           vendor == vendor_related(fields)
           owner == system_owner(fields)
           pre == <<l2, vendor, owner>>
       IN IF \E i \in 1..Len(pre) : ~pre[i].ok THEN Raise(FirstExc(pre))
          ELSE
            LET items == RowItems(task, fields, l2.v,
                           clean_field(Get(fields, "customfield_20161", PyStr(""))),
                           get_nested_value(fields, "customfield_20163", "value"),
                           vendor.v, owner.v)
                outs == [i \in 1..Len(items) |-> items[i][2]]
            IN IF \E i \in 1..Len(outs) : ~outs[i].ok THEN Raise(FirstExc(outs))
               ELSE Ok(PyDict([i \in 1..Len(items) |-> <<items[i][1], items[i][2].v>>]))

(***************************************************************************)
(* CSVExporter                                                             *)
(***************************************************************************)
\* the header with the column "Incident Duration" forgotten
fieldnames_short == <<
  "key", "summary", "reporter", "L2 Assignee", "Responsible Team",
  "Incident Detected type", "Vendor Related Incidents", "status", "priority",
  "System for incident", "System Owner", "System owner department",
  "Impacted Business Process", "Impacted Systems", "Incident detected date",
  "Incident start date", "Incident end date", "Downtime Type", "Downtime Outage",
  "Incident Details", "Root Cause Analysis",
  "Mitigation & Resolution", "Corrective Actions", "Incident solution",
  "Real downtime duration", "Error Rate", "Problem Links" >>

\* CSVExporter.fieldnames
fieldnames == <<
  "key", "summary", "reporter", "L2 Assignee", "Responsible Team",
  "Incident Detected type", "Vendor Related Incidents", "status", "priority",
  "System for incident", "System Owner", "System owner department",
  "Impacted Business Process", "Impacted Systems", "Incident detected date",
  "Incident start date", "Incident end date", "Downtime Type", "Downtime Outage",
  "Incident Duration", "Incident Details", "Root Cause Analysis",
  "Mitigation & Resolution", "Corrective Actions", "Incident solution",
  "Real downtime duration", "Error Rate", "Problem Links" >>

\* the cell the csv writer emits for a value: None is empty, others str()
CsvCell(v) == IF v.t = "none" THEN "" ELSE Str(v)

\* DictWriter._dict_to_list: a key outside fieldnames is a ValueError
HasExtraKeys(row) ==
  \E i \in 1..Len(row.kv) : \A j \in 1..Len(fieldnames) : fieldnames[j] # row.kv[i][1]

\* the cells of a row, in the order of fieldnames, absent ones empty
CsvRow(row) ==
  [j \in 1..Len(fieldnames) |-> CsvCell(Get(row, fieldnames[j], PyStr("")))]

\* the output file: absent, or its header and rows as a reader parses them
NoFile == [exists |-> FALSE, header |-> <<>>, rows |-> <<>>]
OldFile == [exists |-> TRUE, header |-> <<"old">>, rows |-> <<>>]
Truncated == [exists |-> TRUE, header |-> <<>>, rows |-> <<>>]
\* the file after the header and the first k rows of data were written
Written(data, k) ==
  [exists |-> TRUE, header |-> fieldnames,
   rows |-> [i \in 1..k |-> CsvRow(data[i])]]

(***************************************************************************)
(* The records the server may hold.                                        *)
(***************************************************************************)
MkTask(key, fieldkv) ==
  PyDict(<< <<"key", PyStr(key)>>, <<"fields", PyDict(fieldkv)>> >>)

\* record i of a server: well shaped, every optional field absent but one
NumberedTask(i) ==
  MkTask("IM-" \o ToString(i), << <<"summary", PyStr("Task " \o ToString(i))>> >>)

\* a server holding records 1..n
Numbered(n) == [i \in 1..n |-> NumberedTask(i)]

\* the keys format_task reads from fields, and one it does not know
SourceKeys == {
  "summary", "reporter", "status", "priority",
  "customfield_20145", "customfield_20161", "customfield_20163",
  "customfield_20906", "customfield_20157", "customfield_20800",
  "customfield_20129", "customfield_20160", "customfield_20164",
  "customfield_20162", "customfield_20158", "customfield_20159",
  "customfield_20908", "customfield_20901", "customfield_20902",
  "customfield_20136", "customfield_20138", "customfield_20137",
  "customfield_20148", "customfield_20113", "customfield_21519",
  "customfield_20904", "customfield_22301", "customfield_99999" }

One(k, v) == PyDict(<< <<k, v>> >>)

\* the shapes a field of a record takes: null, scalars, lists, objects
Shapes == {
  PyNone, PyStr(""), PyStr("Disk full (IM-1234)"), PyStr("no value"),
  PyInt(0), PyInt(5), PyBool(TRUE),
  PyList(<<>>), PyList(<<PyStr("A (IM-1)"), PyStr("B")>>),
  PyList(<<One("emailAddress", PyStr("a@x.com")),
           One("emailAddress", PyStr("b@x.com"))>>),
  PyList(<<PyDict(<<>>)>>), PyList(<<One("emailAddress", PyNone)>>),
  PyDict(<<>>), One("value", PyStr("High")), One("value", PyNone),
  One("value", PyList(<<PyStr("IM-7"), PyInt(2)>>)),
  One("displayName", PyStr("Ann")), One("displayName", PyNone),
  One("name", PyStr("Open")), One("name", PyNone) }

\* a record with every field format_task reads present and of its usual shape
FullTask == MkTask("IM-100", <<
  <<"summary", PyStr("Disk full")>>,
  <<"reporter", One("displayName", PyStr("Ann"))>>,
  <<"status", One("name", PyStr("Open"))>>,
  <<"priority", One("name", PyStr("High"))>>,
  <<"customfield_20145", PyList(<<One("emailAddress", PyStr("a@x.com")),
                                  One("emailAddress", PyStr("b@x.com"))>>)>>,
  <<"customfield_20161", PyList(<<PyStr("A (IM-1)"), PyStr("B")>>)>>,
  <<"customfield_20163", One("value", PyStr("Monitoring"))>>,
  <<"customfield_20906", One("value", PyStr("Yes"))>>,
  <<"customfield_20157", One("displayName", PyStr("Bob"))>>,
  <<"customfield_20800", PyStr("Billing (IM-42)")>>,
  <<"customfield_20162", PyStr("2024-01-01")>>,
  <<"customfield_20908", One("value", PyStr("1h"))>>,
  <<"customfield_20136", PyStr("details")>>,
  <<"customfield_20904", PyInt(5)>>,
  <<"customfield_22301", One("value", PyList(<<PyStr("IM-7")>>))>>,
  <<"customfield_99999", PyStr("ignored")>> >>)

\* records lacking the identifier, lacking fields, or with fields no mapping
NoKeyTask == PyDict(<< <<"fields", PyDict(<<>>)>> >>)
NoFieldsTask == PyDict(<< <<"key", PyStr("IM-1")>> >>)
NullFieldsTask == PyDict(<< <<"key", PyStr("IM-1")>>, <<"fields", PyNone>> >>)

Tasks ==
  {MkTask("IM-1", << <<k, v>> >>) : k \in SourceKeys, v \in Shapes}
    \cup {MkTask("IM-1", <<>>), FullTask, NoKeyTask, NoFieldsTask, NullFieldsTask}

\* a record has the identifier key and a fields mapping
WellShaped(task) ==
  /\ task.t = "dict"
  /\ HasKey(task, "key")
  /\ HasKey(task, "fields")
  /\ Item(task, "fields").t = "dict"

SampleTasks ==
  {NumberedTask(1), NumberedTask(2), MkTask("IM-3", << <<"reporter", PyNone>> >>)}

\* sequences of length lo..hi over S
SeqsOf(S, lo, hi) == UNION {[1..n -> S] : n \in lo..hi}

\* the sizes of the servers that need several default pages
BigSizes == {12, 50, 100, 112}

(***************************************************************************)
(* The program's state.                                                    *)
(***************************************************************************)
VARIABLES
  entry,                 \* the function called: get_tasks, export_tasks, format_task
  pc,                    \* where the call stands
  db,                    \* the records the remote search holds for the query
  max_results_per_page,  \* get_tasks' parameter
  start_at,              \* get_tasks' offset
  params,                \* the query parameters of the request in flight
  all_tasks,             \* get_tasks' accumulator
  responses,             \* history: the response of every request, in order
  tasks,                 \* what get_tasks returned
  formatted_tasks,       \* the rows export_tasks has built so far
  writer_calls,          \* history: the argument of every call of export
  file,                  \* the output file
  file0,                 \* the output file before the run
  console,               \* the messages printed
  outcome,               \* running, completed, or the exception that escaped
  task,                  \* format_task's argument, when it is the entry
  result                 \* format_task's outcome, when it is the entry

vars == <<entry, pc, db, max_results_per_page, start_at, params, all_tasks, responses,
          tasks, formatted_tasks, writer_calls, file, file0, console, outcome,
          task, result>>

\* the history keeps at most this many responses: more than any fetch with a
\* page size >= 1 makes
MaxRequests == MaxDb + 2

Min(a, b) == IF a <= b THEN a ELSE b

Running == [status |-> "running", site |-> "", exc |-> ""]
Completed == [status |-> "completed", site |-> "", exc |-> ""]
Crashed(site, exc) == [status |-> "crashed", site |-> site, exc |-> exc]
Pending == [pending |-> TRUE]
NoRequest == [sent |-> FALSE]

\* the remote search: the at most maxResults records found at startAt
JiraSearch(records, startAt, maxResults) ==
  SubSeq(records, startAt + 1, Min(startAt + maxResults, Len(records)))

\* what requests.get and raise_for_status raise: transport errors, a non-2xx status
FetchErrors == {"ConnectionError", "Timeout", "HTTPError"}

\* an except clause that names the transport errors only
IsRequestException_transport(e) == e \in {"ConnectionError", "Timeout"}

\* except requests.exceptions.RequestException
IsRequestException(e) ==
  e \in {"RequestException", "ConnectionError", "Timeout", "HTTPError"}

\* the accumulator replaced by the page instead of extended
Extend_replace(all, issues) == issues

\* all_tasks.extend(issues)
Extend(all, issues) == all \o issues

\* the end test off by one: a full page ends the loop too
ShortPage_le(issues, p) == Len(issues) <= p

\* len(issues) < max_results_per_page
ShortPage(issues, p) == Len(issues) < p

\* the offset left where it is
NextStartAt_stuck(s, p) == s

\* start_at += max_results_per_page
NextStartAt(s, p) == s + p

\* the emptiness test lost
NoTasks_never(ts) == FALSE

\* not tasks
NoTasks(ts) == Len(ts) = 0

\* the history with one more response; a full history keeps its latest only
Record(hist, r) ==
  IF Len(hist) < MaxRequests THEN Append(hist, r)
  ELSE [hist EXCEPT ![MaxRequests] = r]

\* where the caller of get_tasks goes on
AfterGetTasks == IF entry = "export_tasks" THEN "check" ELSE "done"

Init ==
  /\ entry \in {"get_tasks", "export_tasks", "format_task"}
  /\ \/ /\ entry = "get_tasks"
        /\ \/ /\ max_results_per_page \in 0..MaxPageSize
              /\ db \in {Numbered(n) : n \in 0..MaxDb}
           \/ /\ max_results_per_page = DefaultPageSize
              /\ db \in {Numbered(n) : n \in BigSizes}
        /\ pc = "fetch"
        /\ task = PyNone
        /\ file0 = NoFile
     \/ /\ entry = "export_tasks"
        /\ max_results_per_page = DefaultPageSize
        /\ db \in {<<t>> : t \in Tasks}
                    \cup SeqsOf(SampleTasks, 0, MaxBatch)
                    \cup {Numbered(n) : n \in BigSizes}
        /\ pc = "fetch"
        /\ task = PyNone
        /\ file0 \in {NoFile, OldFile}
     \/ /\ entry = "format_task"
        /\ max_results_per_page = DefaultPageSize
        /\ db = <<>>
        /\ pc = "call"
        /\ task \in Tasks
        /\ file0 = NoFile
  /\ start_at = 0
  /\ params = NoRequest
  /\ all_tasks = <<>>
  /\ responses = <<>>
  /\ tasks = <<>>
  /\ formatted_tasks = <<>>
  /\ writer_calls = <<>>
  /\ file = file0
  /\ console = <<>>
  /\ outcome = Running
  /\ result = Pending

\* get_tasks, the head of a turn of the loop: the request goes out
SendRequest ==
  /\ pc = "fetch"
  /\ params' = [sent |-> TRUE, startAt |-> start_at,
                maxResults |-> max_results_per_page]
  /\ pc' = "await"
  /\ UNCHANGED <<entry, db, max_results_per_page, start_at, all_tasks, responses,
                 tasks, formatted_tasks, writer_calls, file, file0, console,
                 outcome, task, result>>

\* get_tasks, the rest of a turn whose request succeeds
FetchPage ==
  /\ pc = "await"
  /\ params' = NoRequest
  /\ LET issues == JiraSearch(db, params.startAt, params.maxResults)
     IN /\ responses' = Record(responses, [ok |-> TRUE, issues |-> issues])
        /\ all_tasks' = Extend(all_tasks, issues)
        /\ IF ShortPage(issues, max_results_per_page)
             THEN /\ tasks' = all_tasks'
                  /\ pc' = AfterGetTasks
                  /\ outcome' = IF entry = "get_tasks" THEN Completed ELSE outcome
                  /\ UNCHANGED start_at
             ELSE /\ start_at' = NextStartAt(start_at, max_results_per_page)
                  /\ pc' = "fetch"
                  /\ UNCHANGED <<tasks, outcome>>
  /\ UNCHANGED <<entry, db, max_results_per_page, formatted_tasks, writer_calls,
                 file, file0, console, task, result>>

\* a failed request retried: the loop goes round again
FetchFail_retry ==
  /\ pc = "await"
  /\ params' = NoRequest
  /\ \E e \in FetchErrors :
       /\ responses' = Record(responses, [ok |-> FALSE, exc |-> e])
       /\ console' = Append(console, "fetch_error")
       /\ pc' = "fetch"
  /\ UNCHANGED <<entry, db, max_results_per_page, start_at, all_tasks, tasks,
                 outcome, formatted_tasks, writer_calls, file, file0, task, result>>

\* get_tasks, the rest of a turn whose request raises
FetchFail ==
  /\ pc = "await"
  /\ params' = NoRequest
  /\ \E e \in FetchErrors :
       /\ responses' = Record(responses, [ok |-> FALSE, exc |-> e])
       /\ IF IsRequestException(e)
            THEN /\ console' = Append(console, "fetch_error")
                 /\ tasks' = all_tasks
                 /\ pc' = AfterGetTasks
                 /\ outcome' = IF entry = "get_tasks" THEN Completed ELSE outcome
            ELSE /\ outcome' = Crashed("get_tasks", e)
                 /\ pc' = "done"
                 /\ UNCHANGED <<console, tasks>>
  /\ UNCHANGED <<entry, db, max_results_per_page, start_at, all_tasks,
                 formatted_tasks, writer_calls, file, file0, task, result>>

\* export_tasks: the test of the fetch result
CheckTasks ==
  /\ pc = "check"
  /\ IF NoTasks(tasks)
       THEN /\ console' = Append(console, "no_tasks")
            /\ outcome' = Completed
            /\ pc' = "done"
       ELSE /\ pc' = IF Len(tasks) = 0 THEN "export" ELSE "format"
            /\ UNCHANGED <<console, outcome>>
  /\ UNCHANGED <<entry, db, max_results_per_page, start_at, params, all_tasks, responses,
                 tasks, formatted_tasks, writer_calls, file, file0, task, result>>

\* export_tasks: format_task on the next record of the list comprehension
FormatNext ==
  /\ pc = "format"
  /\ LET i == Len(formatted_tasks) + 1
         r == format_task(tasks[i])
     IN IF r.ok
          THEN /\ formatted_tasks' = Append(formatted_tasks, r.v)
               /\ pc' = IF i = Len(tasks) THEN "export" ELSE "format"
               /\ UNCHANGED outcome
          ELSE /\ outcome' = Crashed("format_task", r.exc)
               /\ pc' = "done"
               /\ UNCHANGED formatted_tasks
  /\ UNCHANGED <<entry, db, max_results_per_page, start_at, params, all_tasks, responses,
                 tasks, writer_calls, file, file0, console, task, result>>

\* the rows of data before the first with a key outside fieldnames
GoodPrefix(data) ==
  IF \E i \in 1..Len(data) : HasExtraKeys(data[i])
    THEN (CHOOSE i \in 1..Len(data) :
            HasExtraKeys(data[i]) /\ \A j \in 1..(i - 1) : ~HasExtraKeys(data[j])) - 1
    ELSE Len(data)

\* CSVExporter.export, called by export_tasks, which then returns; fault is
\* where the I/O fails: nowhere, at open, before the header, after k rows
Export ==
  /\ pc = "export"
  /\ writer_calls' = Append(writer_calls, formatted_tasks)
  /\ \E fault \in {"none", "open", "header", "rows"} :
       CASE fault = "open" ->
              /\ file' = file
              /\ console' = Append(console, "export_error")
         [] fault = "header" ->
              /\ file' = Truncated
              /\ console' = Append(console, "export_error")
         [] fault = "rows" ->
              \E k \in 0..(GoodPrefix(formatted_tasks) - 1) :
                /\ file' = Written(formatted_tasks, k)
                /\ console' = Append(console, "export_error")
         [] OTHER ->
              /\ file' = Written(formatted_tasks, GoodPrefix(formatted_tasks))
              /\ console' = Append(console,
                   IF GoodPrefix(formatted_tasks) = Len(formatted_tasks)
                     THEN "export_ok" ELSE "export_error")
  /\ outcome' = Completed
  /\ pc' = "done"
  /\ UNCHANGED <<entry, db, max_results_per_page, start_at, params, all_tasks, responses,
                 tasks, formatted_tasks, file0, task, result>>

\* a call of format_task on one record
CallFormatTask ==
  /\ pc = "call"
  /\ result' = format_task(task)
  /\ outcome' = IF result'.ok THEN Completed ELSE Crashed("format_task", result'.exc)
  /\ pc' = "done"
  /\ UNCHANGED <<entry, db, max_results_per_page, start_at, params, all_tasks, responses,
                 tasks, formatted_tasks, writer_calls, file, file0, console, task>>

Next ==
  \/ SendRequest
  \/ FetchPage
  \/ FetchFail
  \/ CheckTasks
  \/ FormatNext
  \/ Export
  \/ CallFormatTask

Spec == Init /\ [][Next]_vars

\* get_tasks is sequential and blocking: the loop goes on to its next request,
\* and every request sent gets its response or its error
FairSpec == Spec /\ WF_vars(SendRequest \/ FetchPage \/ FetchFail)

(***************************************************************************)
(* Properties.                                                             *)
(***************************************************************************)
\* get_tasks is in its loop
Fetching == pc \in {"fetch", "await"}

\* the call runs get_tasks
RunsGetTasks == entry \in {"get_tasks", "export_tasks"}

RECURSIVE ConcatPages(_)
\* the records of the successful responses of rs, in order
ConcatPages(rs) ==
  IF Len(rs) = 0 THEN <<>>
  ELSE (IF rs[1].ok THEN rs[1].issues ELSE <<>>) \o ConcatPages(Tail(rs))

AllOk(rs) == \A i \in 1..Len(rs) : rs[i].ok
SomeFailed(rs) == \E i \in 1..Len(rs) : ~rs[i].ok
PageSizes(rs) == [i \in 1..Len(rs) |-> Len(rs[i].issues)]
Printed(msg) == \E i \in 1..Len(console) : console[i] = msg

\* C1: for a page size p >= 1 and successful pages only, every page before
\* the last one made is full, the loop goes on after a full page, and when
\* get_tasks has returned the last of its k requests got the first page
\* shorter than p and the result is the concatenation of pages 1..k in
\* request order; pages of sizes 50, 50, 12 with p = 50 give 112 records
\* from 3 requests.
C1_Pagination ==
  (RunsGetTasks /\ max_results_per_page >= 1 /\ AllOk(responses)) =>
    /\ Len(responses) < MaxRequests
    /\ \A i \in 1..(Len(responses) - 1) :
         Len(responses[i].issues) >= max_results_per_page
    /\ (Fetching /\ Len(responses) > 0) =>
         Len(responses[Len(responses)].issues) >= max_results_per_page
    /\ ~Fetching =>
         /\ Len(responses) >= 1
         /\ Len(responses[Len(responses)].issues) < max_results_per_page
         /\ params = NoRequest
         /\ tasks = ConcatPages(responses)
         /\ (PageSizes(responses) = <<50, 50, 12>>) => Len(tasks) = 112

C1_Witness ==
  /\ entry = "get_tasks"
  /\ pc = "done"
  /\ max_results_per_page = 50
  /\ AllOk(responses)
  /\ PageSizes(responses) = <<50, 50, 12>>
  /\ Len(tasks) = 112

\* C2: a failed request is the last one: after it get_tasks is out of its
\* loop with no request in flight, and what it returns is the records of the
\* pages that succeeded before, unchanged and in order.
C2_FailureStops ==
  RunsGetTasks =>
    \A i \in 1..Len(responses) :
      ~responses[i].ok =>
        /\ i = Len(responses)
        /\ ~Fetching
        /\ params = NoRequest
        /\ tasks = ConcatPages(SubSeq(responses, 1, i - 1))
        /\ tasks = all_tasks

C2_Witness ==
  /\ entry = "get_tasks"
  /\ pc = "done"
  /\ Len(responses) >= 2
  /\ ~responses[Len(responses)].ok
  /\ Len(tasks) > 0

\* C3: when the fetch result of export_tasks is empty, export is never
\* called in the run and the output file is as it was before the run.
C3_EmptyNoWrite ==
  (entry = "export_tasks" /\ ~Fetching /\ Len(tasks) = 0) =>
    /\ writer_calls = <<>>
    /\ file = file0
    /\ pc \in {"check", "done"}

C3_Witness ==
  /\ entry = "export_tasks"
  /\ pc = "done"
  /\ Len(tasks) = 0
  /\ Len(responses) = 1
  /\ ~responses[1].ok
  /\ file0 = OldFile
  /\ Printed("no_tasks")

\* the columns format_task reads with fields.get(key, {}).get(attr, "")
NestedColumns == {<<"reporter", "reporter">>, <<"status", "status">>,
                  <<"priority", "priority">>}

\* the columns format_task reads with fields.get(key, "")
DirectColumns == {
  <<"summary", "summary">>,
  <<"Incident detected date", "customfield_20162">>,
  <<"Incident start date", "customfield_20158">>,
  <<"Incident end date", "customfield_20159">>,
  <<"Incident Details", "customfield_20136">>,
  <<"Mitigation & Resolution", "customfield_20138">>,
  <<"Root Cause Analysis", "customfield_20137">>,
  <<"Corrective Actions", "customfield_20148">>,
  <<"Incident solution", "customfield_20113">>,
  <<"Real downtime duration", "customfield_21519">> }

\* the source field of a column is absent or null
AbsentOrNull(t, key) ==
  LET fields == Item(t, "fields")
  IN ~HasKey(fields, key) \/ Item(fields, key) = PyNone

\* C4: format_task returns a row for every record that has the identifier
\* key and a fields mapping, whatever the shape of the other fields, and a
\* reporter, status or priority that is present but null gives "".
C4_NeverRaises ==
  (entry = "format_task" /\ pc = "done" /\ WellShaped(task)) =>
    /\ result.ok
    /\ \A c \in NestedColumns :
         AbsentOrNull(task, c[2]) => Get(result.v, c[1], PyNone) = PyStr("")

\* C5: every value of a row format_task returns is a string, and a direct
\* scalar column whose source field is absent or null is "".
C5_AllStrings ==
  (entry = "format_task" /\ pc = "done" /\ result.ok) =>
    /\ \A i \in 1..Len(result.v.kv) : result.v.kv[i][2].t = "str"
    /\ \A c \in DirectColumns :
         AbsentOrNull(task, c[2]) => Get(result.v, c[1], PyNone) = PyStr("")

\* the keys of a row are the names of the header, each once
RowMatchesHeader(row) ==
  /\ {row.kv[i][1] : i \in 1..Len(row.kv)} = {fieldnames[j] : j \in 1..Len(fieldnames)}
  /\ Len(row.kv) = Cardinality({fieldnames[j] : j \in 1..Len(fieldnames)})

\* C6: every row format_task produces has the same set of keys, the set of
\* the 28 column names of CSVExporter.fieldnames.
C6_ColumnsMatchHeader ==
  /\ (entry = "format_task" /\ pc = "done" /\ result.ok) =>
       /\ RowMatchesHeader(result.v)
       /\ Len(result.v.kv) = 28
  /\ \A i \in 1..Len(formatted_tasks) :
       /\ RowMatchesHeader(formatted_tasks[i])
       /\ Len(formatted_tasks[i].kv) = 28

C6_Witness ==
  /\ entry = "export_tasks"
  /\ pc = "done"
  /\ Len(formatted_tasks) >= 2
  /\ formatted_tasks[1] # formatted_tasks[2]

\* C7: when the fetch of export_tasks returns n >= 1 well-shaped records,
\* export is called exactly once, after the fetch and the flattening of all
\* n records, with n rows, row i the flattening of record i.
C7_WriterCalledOnce ==
  /\ (entry = "export_tasks" /\ writer_calls # <<>>) =>
       /\ ~Fetching
       /\ Len(formatted_tasks) = Len(tasks)
  /\ (/\ entry = "export_tasks"
      /\ pc = "done"
      /\ Len(tasks) > 0
      /\ \A i \in 1..Len(tasks) : WellShaped(tasks[i])) =>
       /\ Len(writer_calls) = 1
       /\ Len(writer_calls[1]) = Len(tasks)
       /\ \A i \in 1..Len(tasks) :
            /\ format_task(tasks[i]).ok
            /\ writer_calls[1][i] = format_task(tasks[i]).v

\* C8: a failure of a request or of the write never escapes: it is caught
\* in get_tasks or in export and reported, and the run completes unless
\* something else (format_task) raises.
C8_FailuresCaught ==
  /\ outcome.status = "crashed" => outcome.site = "format_task"
  /\ (RunsGetTasks /\ SomeFailed(responses)) =>
       /\ ~Fetching
       /\ Printed("fetch_error")
       /\ (pc = "done" /\ outcome.status # "crashed") => outcome = Completed
  /\ Printed("export_error") => (pc = "done" /\ outcome = Completed)

C8_Witness ==
  /\ entry = "export_tasks"
  /\ pc = "done"
  /\ SomeFailed(responses)
  /\ Printed("fetch_error")
  /\ Printed("export_error")
  /\ outcome = Completed

\* the server holds exactly one page of 50 records, the page size is 50 and
\* the first request has returned them
OneFullPage ==
  /\ RunsGetTasks
  /\ max_results_per_page = 50
  /\ Len(db) = 50
  /\ Len(responses) >= 1
  /\ responses[1].ok
  /\ Len(responses[1].issues) = 50

\* C9 as stated: after one page of 50 with page size 50 the confirming
\* request is the 4th, and the 50 records are returned if it fails.
C9_FourthRequest ==
  (OneFullPage /\ ~Fetching) =>
    /\ Len(responses) = 4
    /\ Len(tasks) = 50

\* C9 amended: after one page of 50 with page size 50 the confirming request
\* is the 2nd and last, and the 50 records are returned whether it fails or
\* returns an empty page.
C9_SecondRequest ==
  OneFullPage =>
    /\ Len(responses) <= 2
    /\ (pc = "fetch" \/ Len(responses) = 2) => start_at = 50
    /\ (pc = "await" /\ Len(responses) = 1) =>
         (params.startAt = 50 /\ params.maxResults = 50)
    /\ ~Fetching =>
         /\ Len(responses) = 2
         /\ tasks = responses[1].issues
         /\ Len(tasks) = 50

C9_Witness ==
  /\ OneFullPage
  /\ pc = "done"
  /\ Len(responses) = 2
  /\ ~responses[2].ok
  /\ Len(tasks) = 50

\* a turn of the loop that goes on to a further request
FurtherRequest == pc = "await" /\ pc' = "fetch"

\* C10 as stated: for every page size, 0 included, the offset starts at 0
\* and grows on every further request, and get_tasks leaves its loop.
C10_TerminatesAlways ==
  /\ start_at = 0
  /\ [][FurtherRequest => start_at' > start_at]_vars
  /\ <>(~Fetching)

\* C10 amended: for every page size >= 1, the offset starts at 0 and grows by
\* the page size on every further request, and get_tasks leaves its loop.
C10_TerminatesPositive ==
  /\ start_at = 0
  /\ [][(max_results_per_page >= 1 /\ FurtherRequest) =>
          (start_at' = start_at + max_results_per_page /\ start_at' > start_at)]_vars
  /\ (max_results_per_page >= 1) ~> (~Fetching)

C10_Witness ==
  /\ entry = "get_tasks"
  /\ pc = "done"
  /\ AllOk(responses)
  /\ max_results_per_page >= 1
  /\ start_at >= 2 * max_results_per_page

====
